---- MODULE Spec2Model ----
\* A model of JointInv/psstation.py: the Station class (its comparison
\* operators), get_stations (the scan of the miniseed files and the resolution
\* of the coordinates) and get_paz (the lookup of an instrument response).
EXTENDS Integers, Sequences, FiniteSets, TLC

\* ---------------------------------------------------------------- bounds

\* Number of files psutils.filelist hands to one scan of get_stations.
MaxFiles == 3

\* Number of inventories handed to one call of get_paz.
MaxPazInv == 2

\* ------------------------------------------------------------- constants

\* coord_tolerance=1E-4 (degrees); coordinates are counted in units of 1E-5
\* degree, so that the means of the observations used below are whole numbers.
CoordTolerance == 10

VARIABLES
  \* get_stations: arguments
  networks, channels, startday, endday, database,
  dataless_inventories, xml_inventories,
  \* get_stations: locals
  stations,   \* the list `stations`: a sequence of object references
  heap,       \* the Station objects, by reference (index)
  f,          \* the loop variable of the scan: the file met last
  nfiles,     \* number of files the scan has consumed
  todo,       \* copy(stations), the list the resolution loop iterates
  i,          \* position of the resolution loop's iterator
  pc,         \* "scan", "resolve", "done" (returned) or "error" (raised)
  err,        \* the exception raised, "" when none
  \* Station comparisons
  a, b, cmp,
  \* get_paz
  channelid, t, inventories, k, paz_pc, paz

gs_vars == <<networks, channels, startday, endday, database,
             dataless_inventories, xml_inventories,
             stations, heap, f, nfiles, todo, i, pc, err>>
cmp_vars == <<a, b, cmp>>
paz_vars == <<channelid, t, inventories, k, paz_pc, paz>>
vars == <<gs_vars, cmp_vars, paz_vars>>

\* ------------------------------------------------------ strings and lists

\* The code points of the strings the model uses (str comparison in Python
\* is the lexicographic order of the code points).
Code(s) ==
  CASE s = "BL"   -> <<66, 76>>
    [] s = "XX"   -> <<88, 88>>
    [] s = "B"    -> <<66>>
    [] s = "CACB" -> <<67, 65, 67, 66>>
    [] s = "NUPB" -> <<78, 85, 80, 66>>
    [] s = "BHZ"  -> <<66, 72, 90>>
    [] s = "BHE"  -> <<66, 72, 69>>

\* s1 < s2 for two sequences of numbers: the first position where they differ
\* decides, and a proper prefix is smaller.
RECURSIVE SeqLess(_, _)
SeqLess(s1, s2) ==
  IF s1 = <<>> THEN s2 # <<>>
  ELSE IF s2 = <<>> THEN FALSE
  ELSE IF Head(s1) # Head(s2) THEN Head(s1) < Head(s2)
  ELSE SeqLess(Tail(s1), Tail(s2))

StrLess(s1, s2) == SeqLess(Code(s1), Code(s2))

\* l1 < l2 for two Python lists of str: the first position where the items
\* differ (==) decides by the items' <, and a proper prefix is smaller.
RECURSIVE ListLess(_, _)
ListLess(l1, l2) ==
  IF l1 = <<>> THEN l2 # <<>>
  ELSE IF l2 = <<>> THEN FALSE
  ELSE IF Head(l1) # Head(l2) THEN StrLess(Head(l1), Head(l2))
  ELSE ListLess(Tail(l1), Tail(l2))

\* ------------------------------------------------------------ class Station

\* (None, None), the coord of a Station built without one.
NoCoord == <<>>

\* Station.__init__
Station(name, network, channel, filename, basedir, subdirs) ==
  [name |-> name, network |-> network, channel |-> channel,
   file |-> filename, basedir |-> basedir,
   subdirs |-> subdirs, coord |-> NoCoord]

\* BOOLATTRS = ['name', 'network', 'channel']
BoolAttrs(s) == <<s.name, s.network, s.channel>>

\* Station.__eq__
Station__eq__(s, o) ==
  \A n \in 1..3 : BoolAttrs(s)[n] = BoolAttrs(o)[n]

\* Station.__ne__
Station__ne__(s, o) == ~Station__eq__(s, o)

\* Station.__lt__
Station__lt__(s, o) == ListLess(BoolAttrs(s), BoolAttrs(o))

\* Station.__le__
Station__le__(s, o) == Station__lt__(s, o) \/ Station__eq__(s, o)

\* A slip in __gt__: the negation of __lt__ instead of the negation of __le__.
Station__gt__NotLt(s, o) == ~Station__lt__(s, o)

\* Station.__gt__
Station__gt__(s, o) == ~Station__le__(s, o)

\* Station.__ge__
Station__ge__(s, o) == ~Station__lt__(s, o)

\* ------------------------------------------------- get_stations: the inputs

\* None, for an optional argument that holds a set or a date.
None == {}

\* The files psutils.filelist may return: the date directory (subdir) and the
\* basename, as the list of the tokens that '.' separates in it.
MseedFile(subdir, tokens) == [subdir |-> subdir, tokens |-> tokens]

Files ==
  { MseedFile(20160806, <<"BL", "CACB", "00", "BHZ", "D", "mseed">>),
    MseedFile(20160806, <<"BL", "CACB", "10", "BHZ", "D", "mseed">>),
    MseedFile(20160807, <<"BL", "CACB", "00", "BHZ", "D", "mseed">>),
    MseedFile(20160806, <<"XX", "CACB", "00", "BHZ", "D", "mseed">>),
    MseedFile(20160806, <<"BL", "NUPB", "00", "BHZ", "D", "mseed">>),
    MseedFile(20160806, <<"BL", "CACB", "00", "BHE", "D", "mseed">>),
    MseedFile(20160901, <<"BL", "CACB", "00", "BHZ", "D", "mseed">>),
    MseedFile(20160806, <<"README", "mseed">>) }

\* The value of f before the scan has met a file.
NoFile == MseedFile(0, <<>>)

\* startday, endday: None or a date, of which the scan reads year and month.
Day(year, month) == {[year |-> year, month |-> month]}

DayFilters ==
  { <<None, None>>, <<Day(2016, 9), None>>, <<None, Day(2016, 8)>> }

\* database: False, or a dict from "NET.STA" to {'stla', 'stlo', 'stel'}. A key
\* "NET.STA" is written <<NET, STA>>: the tokens hold no '.', so the join is
\* one-to-one.
NoDatabase == [given |-> FALSE, dict |-> [id \in {} |-> 0]]

DbEntry(stlo, stla, stel) == [stlo |-> stlo, stla |-> stla, stel |-> stel]

Dict(d) == [given |-> TRUE, dict |-> d]

Databases ==
  { NoDatabase,
    Dict([id \in {} |-> 0]),
    Dict([id \in {<<"BL", "NUPB">>} |-> DbEntry(1000, 2000, 70)]),
    Dict([id \in {<<"BL", "CACB">>, <<"XX", "CACB">>, <<"BL", "NUPB">>} |->
            IF id[1] = "XX" THEN DbEntry(3300, 4400, 0)
            ELSE IF id[2] = "NUPB" THEN DbEntry(1000, 2000, 70)
            ELSE DbEntry(3000, 4000, 50)]) }

\* A channel of inv.getInventory()['channels'] of a dataless inventory.
Channel(channel_id, longitude, latitude) ==
  [channel_id |-> channel_id, longitude |-> longitude, latitude |-> latitude]

\* A station s of a network net of a StationXML inventory, with net.code.
XmlStation(net, code, longitude, latitude) ==
  [net |-> net, code |-> code, longitude |-> longitude, latitude |-> latitude]

Dataless1 ==
  { Channel(<<"BL", "CACB", "00", "BHZ">>, 1000, 2000),
    Channel(<<"BL", "CACB", "00", "BHE">>, 1000, 2000),
    Channel(<<"BL", "NUPB", "00", "BHZ">>, 5000, 6000) }

\* <<dataless_inventories, xml_inventories>>: no inventory, one observation,
\* two agreeing, two within the tolerance, two beyond it.
InventoryChoices ==
  { << <<>>, <<>> >>,
    << <<Dataless1>>, <<>> >>,
    << <<Dataless1>>, <<{XmlStation("BL", "CACB", 1000, 2000)}>> >>,
    << <<Dataless1>>, <<{XmlStation("BL", "CACB", 1006, 1996)}>> >>,
    << <<Dataless1>>, <<{XmlStation("BL", "CACB", 1000, 2060)}>> >> }

\* ------------------------------------------------- get_stations: the scan

\* int(subdir[0:4]), int(subdir[4:6]) of an 8-digit subdir
Year(subdir) == subdir \div 10000
Month(subdir) == (subdir \div 100) % 100

\* (y1, m1) < (y2, m2), the comparison of two tuples
YmLess(y1, m1, y2, m2) == y1 < y2 \/ (y1 = y2 /\ m1 < m2)

\* if startday and (year, month) < (startday.year, startday.month): continue
\* if endday and (year, month) > (endday.year, endday.month): continue
MonthExcluded(subdir) ==
  \/ \E d \in startday : YmLess(Year(subdir), Month(subdir), d.year, d.month)
  \/ \E d \in endday : YmLess(d.year, d.month, Year(subdir), Month(subdir))

\* rawfilename.split('.')[0:4]
First4(tokens) ==
  SubSeq(tokens, 1, IF Len(tokens) < 4 THEN Len(tokens) ELSE 4)

\* A filter that lets every network through.
NetworkRejectedNever(network) == FALSE

\* if networks and network not in networks: continue
NetworkRejected(network) == networks # None /\ network \notin networks

\* if channels and channel not in channels: continue
ChannelRejected(channel) == channels # None /\ channel \notin channels

\* A match that forgets the channel.
MatchNoChannel(s, network, name, channel) ==
  <<s.network, s.name>> = <<network, name>>

\* match = lambda s: [s.network, s.name, s.channel] == [network, name, channel]
Match(s, network, name, channel) ==
  <<s.network, s.name, s.channel>> = <<network, name, channel>>

\* next(s for s in stations if match(s)): the position in `stations` of the
\* first match, 0 for StopIteration
FirstMatch(network, name, channel) ==
  LET hits == {n \in 1..Len(stations) :
                 Match(heap[stations[n]], network, name, channel)}
  IN IF hits = {} THEN 0
     ELSE CHOOSE n \in hits : \A m \in hits : n <= m

\* One iteration of `for f in files`, on the file `file`.
ScanFile ==
  /\ pc = "scan"
  /\ nfiles < MaxFiles
  /\ \E file \in Files :
       /\ f' = file
       /\ nfiles' = nfiles + 1
       /\ IF MonthExcluded(file.subdir)
          THEN UNCHANGED <<stations, heap, pc, err>>
          ELSE IF Len(First4(file.tokens)) # 4
          THEN \* network, name, loc, channel = ...: too few values to unpack
               /\ pc' = "error"
               /\ err' = "ValueError"
               /\ UNCHANGED <<stations, heap>>
          ELSE LET network == file.tokens[1]
                   name == file.tokens[2]
                   loc == file.tokens[3]
                   channel == file.tokens[4]
                   filename == <<network, name, loc, channel, "*", "mseed">>
                   n == FirstMatch(network, name, channel)
               IN IF NetworkRejected(network) \/ ChannelRejected(channel)
                  THEN UNCHANGED <<stations, heap, pc, err>>
                  ELSE IF n = 0
                  THEN /\ heap' = Append(heap,
                                    Station(name, network, channel, filename,
                                            "mseed_dir", <<file.subdir>>))
                       /\ stations' = Append(stations, Len(heap) + 1)
                       /\ UNCHANGED <<pc, err>>
                  ELSE /\ heap' = [heap EXCEPT ![stations[n]].subdirs =
                                     Append(@, file.subdir)]
                       /\ UNCHANGED <<stations, pc, err>>
  /\ UNCHANGED <<networks, channels, startday, endday, database,
                 dataless_inventories, xml_inventories, todo, i>>
  /\ UNCHANGED <<cmp_vars, paz_vars>>

\* The list of files is exhausted: `for sta in copy(stations)` begins.
EndScan ==
  /\ pc = "scan"
  /\ pc' = "resolve"
  /\ todo' = stations
  /\ i' = 1
  /\ UNCHANGED <<networks, channels, startday, endday, database,
                 dataless_inventories, xml_inventories,
                 stations, heap, f, nfiles, err>>
  /\ UNCHANGED <<cmp_vars, paz_vars>>

\* ------------------------------------- get_stations: the coordinates

\* set((c['longitude'], c['latitude']) for inv in dataless_inventories
\*     for c in inv.getInventory()['channels']
\*     if c['channel_id'].split('.')[:2] == [sta.network, sta.name])
DatalessCoords(sta) ==
  { <<c.longitude, c.latitude>> :
      c \in { c \in UNION {dataless_inventories[n] :
                             n \in 1..Len(dataless_inventories)} :
                SubSeq(c.channel_id, 1, 2) = <<sta.network, sta.name>> } }

\* (s.longitude, s.latitude) for inv in xml_inventories for net in inv
\*     for s in net.stations if net.code == sta.network and s.code == sta.name
XmlCoords(sta) ==
  { <<s.longitude, s.latitude>> :
      s \in { s \in UNION {xml_inventories[n] :
                             n \in 1..Len(xml_inventories)} :
                s.net = sta.network /\ s.code = sta.name } }

\* coords_set after the two inventories have been read
InventoryCoords(sta) == DatalessCoords(sta) \cup XmlCoords(sta)

\* `if database:` binds stationinfo; False and the empty dict do not.
StationinfoBound == database.given /\ DOMAIN database.dict # {}

\* The database consulted only when the inventories hold nothing.
DatabaseCoordsFallback(coords_set, sta) ==
  LET stationid == <<sta.network, sta.name>>
  IN IF coords_set # {} THEN coords_set
     ELSE IF stationid \in DOMAIN database.dict
     THEN {<<database.dict[stationid].stlo, database.dict[stationid].stla,
             database.dict[stationid].stel>>}
     ELSE {}

\* try: coords_set = [(stationinfo[stationid]['stlo'], ...['stla'], ...['stel'])]
\* except KeyError: coords_set = ()
\* (coords_set, the value built from the inventories, is not read)
DatabaseCoords(coords_set, sta) ==
  LET stationid == <<sta.network, sta.name>>
  IN IF stationid \in DOMAIN database.dict
     THEN {<<database.dict[stationid].stlo, database.dict[stationid].stla,
             database.dict[stationid].stel>>}
     ELSE {}

Abs(x) == IF x < 0 THEN -x ELSE x

\* np.abs(np.diff(list(it.combinations(xs, 2)))).max(), xs the axis `axis` of
\* the tuples of coords_set (at least two of them)
MaxDiff(coords_set, axis) ==
  LET diffs == { Abs(p[axis] - q[axis]) :
                   <<p, q>> \in {pq \in coords_set \X coords_set :
                                   pq[1] # pq[2]} }
  IN CHOOSE d \in diffs : \A e \in diffs : e <= d

RECURSIVE SumAxis(_, _)
SumAxis(coords_set, axis) ==
  IF coords_set = {} THEN 0
  ELSE LET p == CHOOSE p \in coords_set : TRUE
       IN p[axis] + SumAxis(coords_set \ {p}, axis)

\* np.mean of the axis `axis` of the tuples of coords_set
Mean(coords_set, axis) == SumAxis(coords_set, axis) \div Cardinality(coords_set)

\* The branches of `if not coords_set: ... elif len(coords_set) == 1: ... else:`
\* [keep |-> FALSE]: stations.remove(sta); otherwise the value of sta.coord.
Resolution(coords_set) ==
  IF coords_set = {}
  THEN [keep |-> FALSE, coord |-> NoCoord]
  ELSE IF Cardinality(coords_set) = 1
  THEN [keep |-> TRUE, coord |-> CHOOSE c \in coords_set : TRUE]
  ELSE IF /\ MaxDiff(coords_set, 1) <= CoordTolerance
          /\ MaxDiff(coords_set, 2) <= CoordTolerance
  THEN [keep |-> TRUE, coord |-> <<Mean(coords_set, 1), Mean(coords_set, 2)>>]
  ELSE [keep |-> FALSE, coord |-> NoCoord]

\* list.remove(x): the list without its first item equal (==) to x
RECURSIVE Remove(_, _)
Remove(list, sta) ==
  IF list = <<>> THEN <<>>
  ELSE IF Station__eq__(heap[Head(list)], heap[sta]) THEN Tail(list)
  ELSE <<Head(list)>> \o Remove(Tail(list), sta)

\* The loop running over the list it removes from.
IterListLive == stations

\* `for sta in copy(stations)`: the list the loop runs over
IterList == todo

\* One iteration of `for sta in copy(stations)`.
ResolveStation ==
  /\ pc = "resolve"
  /\ i <= Len(IterList)
  /\ LET sta == IterList[i]
         inv_coords == InventoryCoords(heap[sta])
     IN IF ~StationinfoBound
        THEN \* stationinfo[stationid]: the local was never assigned
             /\ pc' = "error"
             /\ err' = "UnboundLocalError"
             /\ UNCHANGED <<stations, heap, i>>
        ELSE LET r == Resolution(DatabaseCoords(inv_coords, heap[sta]))
             IN /\ IF r.keep
                   THEN /\ heap' = [heap EXCEPT ![sta].coord = r.coord]
                        /\ UNCHANGED stations
                   ELSE /\ stations' = Remove(stations, sta)
                        /\ UNCHANGED heap
                /\ i' = i + 1
                /\ UNCHANGED <<pc, err>>
  /\ UNCHANGED <<networks, channels, startday, endday, database,
                 dataless_inventories, xml_inventories, f, nfiles, todo>>
  /\ UNCHANGED <<cmp_vars, paz_vars>>

\* return stations
Return ==
  /\ pc = "resolve"
  /\ i > Len(IterList)
  /\ pc' = "done"
  /\ UNCHANGED <<networks, channels, startday, endday, database,
                 dataless_inventories, xml_inventories,
                 stations, heap, f, nfiles, todo, i, err>>
  /\ UNCHANGED <<cmp_vars, paz_vars>>

\* The values the other operations' variables keep while get_stations runs.
CmpIdle == a = <<>> /\ b = <<>> /\ cmp = <<>>
PazIdle ==
  /\ channelid = <<>> /\ t = 0 /\ inventories = <<>>
  /\ k = 0 /\ paz_pc = "idle" /\ paz = <<>>
GsIdle ==
  /\ networks = None /\ channels = None /\ startday = None /\ endday = None
  /\ database = NoDatabase
  /\ dataless_inventories = <<>> /\ xml_inventories = <<>>
  /\ stations = <<>> /\ heap = <<>> /\ f = NoFile /\ nfiles = 0
  /\ todo = <<>> /\ i = 0 /\ pc = "idle" /\ err = ""

\* get_stations is called: stations = []
Init ==
  /\ networks \in {None, {"BL"}}
  /\ channels \in {None, {"BHZ"}}
  /\ \E d \in DayFilters : startday = d[1] /\ endday = d[2]
  /\ database \in Databases
  /\ \E c \in InventoryChoices :
       dataless_inventories = c[1] /\ xml_inventories = c[2]
  /\ stations = <<>>
  /\ heap = <<>>
  /\ f = NoFile
  /\ nfiles = 0
  /\ todo = <<>>
  /\ i = 0
  /\ pc = "scan"
  /\ err = ""
  /\ CmpIdle
  /\ PazIdle

Next == ScanFile \/ EndScan \/ ResolveStation \/ Return

Spec == Init /\ [][Next]_vars

\* ------------------------------------------------- Station comparisons

\* Station objects to compare: every triple over a few names, networks and
\* channels, with a resolved or an empty coord and differing subdirs and files.
StationSamples ==
  { [name |-> n, network |-> w, channel |-> c,
     file |-> <<w, n, o[3], c, "*", "mseed">>, basedir |-> "mseed_dir",
     subdirs |-> o[1], coord |-> o[2]] :
      n \in {"CACB", "NUPB"}, w \in {"B", "BL", "XX"}, c \in {"BHE", "BHZ"},
      o \in { << <<20160806>>, NoCoord, "00" >>,
              << <<20160806, 20160807>>, <<1000, 2000>>, "10" >> } }

NotCompared ==
  [done |-> FALSE, eq |-> FALSE, ne |-> FALSE, lt |-> FALSE,
   le |-> FALSE, gt |-> FALSE, ge |-> FALSE]

CmpInit ==
  /\ a \in StationSamples
  /\ b \in StationSamples
  /\ cmp = NotCompared
  /\ GsIdle
  /\ PazIdle

\* a == b, a != b, a < b, a <= b, a > b, a >= b are evaluated.
Compare ==
  /\ ~cmp.done
  /\ cmp' = [done |-> TRUE,
             eq |-> Station__eq__(a, b), ne |-> Station__ne__(a, b),
             lt |-> Station__lt__(a, b), le |-> Station__le__(a, b),
             gt |-> Station__gt__(a, b), ge |-> Station__ge__(a, b)]
  /\ UNCHANGED <<a, b>>
  /\ UNCHANGED <<gs_vars, paz_vars>>

CmpNext == Compare

SpecCmp == CmpInit /\ [][CmpNext]_vars

\* ---------------------------------------------------------------- get_paz

\* An inventory with a getPAZ method (a Parser): `raises` tells whether
\* inv.getPAZ(channelid, t) raises SEEDParserException for the channelid and
\* the t of the call, `paz` is what it returns otherwise.
ParserInv(raises, p) == [kind |-> "parser", raises |-> raises, paz |-> p]

\* A pickled dict; startdate and enddate are None or a time.
DictInv(id, startdate, enddate, p) ==
  [kind |-> "dict", channelid |-> id, startdate |-> startdate,
   enddate |-> enddate, paz |-> p]

At(time) == {time}

ChannelIds == { <<"BL", "CACB", "00", "BHZ">>, <<"BL", "NUPB", "00", "BHZ">> }

PazInventories ==
  { ParserInv(r, p) : r \in BOOLEAN, p \in {"pazA", "pazB"} }
  \cup { DictInv(id, sd, ed, p) :
           id \in ChannelIds, sd \in {None, At(2)}, ed \in {None, At(2)},
           p \in {"pazC", "pazD"} }

RECURSIVE SeqsUpTo(_, _)
SeqsUpTo(S, n) ==
  IF n = 0 THEN {<<>>}
  ELSE LET shorter == SeqsUpTo(S, n - 1)
       IN shorter \cup { Append(q, x) : q \in shorter, x \in S }

NoResult == [ret |-> "None", exc |-> <<>>]

PazInit ==
  /\ channelid \in ChannelIds
  /\ t \in 1..3
  /\ inventories \in SeqsUpTo(PazInventories, MaxPazInv)
  /\ k = 1
  /\ paz_pc = "loop"
  /\ paz = NoResult
  /\ GsIdle
  /\ CmpIdle

\* The asserts on a dict that leave out the one on enddate.
PassesNoEnddate(inv) ==
  IF inv.kind = "parser" THEN ~inv.raises
  ELSE /\ channelid = inv.channelid
       /\ (inv.startdate = None \/ \A d \in inv.startdate : t >= d)

\* The body of the try: no SEEDParserException from inv.getPAZ(channelid, t),
\* or, for a dict, the three asserts pass
\*   assert channelid == inv['channelid']
\*   assert not inv['startdate'] or t >= inv['startdate']
\*   assert not inv['enddate'] or t <= inv['enddate']
Passes(inv) ==
  IF inv.kind = "parser" THEN ~inv.raises
  ELSE /\ channelid = inv.channelid
       /\ (inv.startdate = None \/ \A d \in inv.startdate : t >= d)
       /\ (inv.enddate = None \/ \A d \in inv.enddate : t <= d)

\* One iteration of `for inv in inventories`: return paz, or continue.
TryInventory ==
  /\ paz_pc = "loop"
  /\ k <= Len(inventories)
  /\ IF Passes(inventories[k])
     THEN /\ paz_pc' = "returned"
          /\ paz' = [ret |-> inventories[k].paz, exc |-> <<>>]
          /\ UNCHANGED k
     ELSE /\ k' = k + 1
          /\ UNCHANGED <<paz_pc, paz>>
  /\ UNCHANGED <<channelid, t, inventories>>
  /\ UNCHANGED <<gs_vars, cmp_vars>>

\* The else of the for: raise pserrors.NoPAZFound('No PAZ found for channel '
\* + channelid)
RaiseNoPAZFound ==
  /\ paz_pc = "loop"
  /\ k > Len(inventories)
  /\ paz_pc' = "raised"
  /\ paz' = [ret |-> "None",
             exc |-> <<"NoPAZFound", "No PAZ found for channel ", channelid>>]
  /\ UNCHANGED <<channelid, t, inventories, k>>
  /\ UNCHANGED <<gs_vars, cmp_vars>>

PazNext == TryInventory \/ RaiseNoPAZFound

SpecPaz == PazInit /\ [][PazNext]_vars

\* ------------------------------------------------ properties: get_stations

\* The station met n-th by the scan has been through the resolution loop.
Processed(n) == n \in 1..Len(todo) /\ n < i

\* The resolution loop raised while it handled the n-th station.
RaisedAt(n) == pc = "error" /\ err = "UnboundLocalError" /\ n = i

\* The Station object `sta` is in the list `stations`.
InList(sta) == \E m \in 1..Len(stations) : stations[m] = sta

\* The database holds the key "<network>.<name>" of the Station object `sta`.
InDatabase(sta) ==
  database.given /\ <<heap[sta].network, heap[sta].name>> \in DOMAIN database.dict

\* The inventories hold exactly two observations for `sta`, p and q.
TwoObservations(sta, p, q) == p # q /\ InventoryCoords(heap[sta]) = {p, q}

WithinTolerance(p, q) ==
  Abs(p[1] - q[1]) <= CoordTolerance /\ Abs(p[2] - q[2]) <= CoordTolerance

\* C1: a station with two distinct observations (lon, lat) within
\* coord_tolerance on both axes, and no entry of a database overriding them, is
\* kept in the returned list (the call does not raise at it) and its coord is
\* the mean of the two observations on each axis.
C1_MeanOfObservations ==
  \A n \in 1..Len(todo) :
    \A p, q \in InventoryCoords(heap[todo[n]]) :
      (TwoObservations(todo[n], p, q) /\ WithinTolerance(p, q)
         /\ ~InDatabase(todo[n]))
      => /\ ~RaisedAt(n)
         /\ Processed(n) =>
              /\ InList(todo[n])
              /\ Len(heap[todo[n]].coord) = 2
              /\ 2 * heap[todo[n]].coord[1] = p[1] + q[1]
              /\ 2 * heap[todo[n]].coord[2] = p[2] + q[2]

\* C2: at a station with two distinct observations that differ by more than
\* coord_tolerance in longitude or in latitude (and no database entry), the
\* call does not raise, and once the station is resolved it is absent from the
\* list.
C2_BeyondToleranceDropped ==
  \A n \in 1..Len(todo) :
    \A p, q \in InventoryCoords(heap[todo[n]]) :
      (TwoObservations(todo[n], p, q) /\ ~WithinTolerance(p, q)
         /\ ~InDatabase(todo[n]))
      => /\ ~RaisedAt(n)
         /\ Processed(n) => ~InList(todo[n])

\* C3: with a database that holds the key "<network>.<name>" of a station, the
\* resolution does not raise at the station, keeps it, and sets its coord to
\* the database's (stlo, stla, stel), whatever the inventories observe.
C3_DatabaseOverrides ==
  \A n \in 1..Len(todo) :
    InDatabase(todo[n])
    => /\ ~RaisedAt(n)
       /\ Processed(n) =>
            LET e == database.dict[<<heap[todo[n]].network, heap[todo[n]].name>>]
            IN /\ InList(todo[n])
               /\ heap[todo[n]].coord = <<e.stlo, e.stla, e.stel>>

\* C3: the call has returned a station of the database whose two inventory
\* observations disagree beyond the tolerance, with the database's coord.
C3_Witness ==
  /\ pc = "done"
  /\ \E n \in 1..Len(todo) :
       /\ InDatabase(todo[n])
       /\ \E p, q \in InventoryCoords(heap[todo[n]]) :
            TwoObservations(todo[n], p, q) /\ ~WithinTolerance(p, q)
       /\ InList(todo[n])
       /\ heap[todo[n]].coord = <<3000, 4000, 50>>

\* (network, name, channel) of a Station
Triple(s) == <<s.network, s.name, s.channel>>

NoTwoOfATriple ==
  \A m, n \in 1..Len(stations) :
    Triple(heap[stations[m]]) = Triple(heap[stations[n]]) => m = n

\* The scan accepts the file: its month is within [startday, endday], its
\* basename has the four tokens, its network and channel pass the filters.
AcceptedFile(file) ==
  /\ \A d \in startday :
       ~(Year(file.subdir) < d.year
         \/ (Year(file.subdir) = d.year /\ Month(file.subdir) < d.month))
  /\ \A d \in endday :
       ~(Year(file.subdir) > d.year
         \/ (Year(file.subdir) = d.year /\ Month(file.subdir) > d.month))
  /\ Len(file.tokens) >= 4
  /\ (networks = {} \/ file.tokens[1] \in networks)
  /\ (channels = {} \/ file.tokens[4] \in channels)

\* A step of the scan on an accepted file: the first file of a triple adds
\* one Station with subdirs [its date directory]; a later file appends its
\* date directory to the Station of the triple; every other Station is left
\* as it was.
AcceptedFileStep ==
  (pc = "scan" /\ nfiles' = nfiles + 1 /\ AcceptedFile(f'))
  => LET tr == <<f'.tokens[1], f'.tokens[2], f'.tokens[4]>>
         old == {n \in 1..Len(stations) : Triple(heap[stations[n]]) = tr}
     IN /\ \A n \in (1..Len(stations)) \ old :
             heap'[stations[n]] = heap[stations[n]]
        /\ IF old = {}
           THEN /\ Len(stations') = Len(stations) + 1
                /\ SubSeq(stations', 1, Len(stations)) = stations
                /\ Triple(heap'[stations'[Len(stations')]]) = tr
                /\ heap'[stations'[Len(stations')]].subdirs = <<f'.subdir>>
           ELSE /\ stations' = stations
                /\ \A n \in old :
                     heap'[stations[n]] =
                       [heap[stations[n]] EXCEPT
                          !.subdirs = Append(@, f'.subdir)]

\* C4: the list never holds two Stations of one (network, name, channel); the
\* first file of a triple creates its Station with subdirs [date directory],
\* a later one appends to it, and Stations of other triples are unchanged.
C4_OneStationPerTriple == [][AcceptedFileStep /\ NoTwoOfATriple']_vars

\* C4: two Stations in the list, one of them fed by two files.
C4_Witness ==
  /\ pc = "scan"
  /\ Len(stations) = 2
  /\ Len(heap[stations[1]].subdirs) = 2
  /\ heap[stations[1]].subdirs[1] # heap[stations[1]].subdirs[2]

AllInFilters ==
  \A n \in 1..Len(stations) :
    /\ networks # {} => heap[stations[n]].network \in networks
    /\ channels # {} => heap[stations[n]].channel \in channels

\* A step of the scan on a file whose network or channel a filter excludes
\* leaves the list and every Station as they were.
FilteredFileStep ==
  (/\ pc = "scan" /\ nfiles' = nfiles + 1 /\ Len(f'.tokens) >= 4
   /\ \/ (networks # {} /\ f'.tokens[1] \notin networks)
      \/ (channels # {} /\ f'.tokens[4] \notin channels))
  => stations' = stations /\ heap' = heap

\* C7: with a non-empty networks (channels) filter, a file of another network
\* (channel) creates no Station and adds no subdir, and every Station of the
\* list, during the resolution and at the return, is of a network (channel)
\* of the filter.
C7_FiltersBeforeResolution == [][FilteredFileStep /\ AllInFilters']_vars

\* C7: the call returns a Station after the networks filter {"BL"} has met a
\* file of network XX.
C7_Witness ==
  /\ pc = "done"
  /\ networks = {"BL"}
  /\ Len(f.tokens) >= 4 /\ f.tokens[1] = "XX"
  /\ Len(stations) >= 1

\* C8: no Station's subdirs holds a date directory twice.
C8_SubdirsUnique ==
  \A n \in 1..Len(heap) :
    \A x, y \in 1..Len(heap[n].subdirs) :
      heap[n].subdirs[x] = heap[n].subdirs[y] => x = y

\* C9: a file whose basename has fewer than four tokens raises no error.
C9_MalformedSkipped ==
  (f # NoFile /\ Len(f.tokens) < 4) => (pc # "error" /\ err = "")

\* The position in todo of the Station object `sta`.
Pos(sta) == CHOOSE n \in 1..Len(todo) : todo[n] = sta

Matches(inv) ==
  IF inv.kind = "parser" THEN ~inv.raises
  ELSE /\ inv.channelid = channelid
       /\ \A d \in inv.startdate : d <= t
       /\ \A d \in inv.enddate : t <= d

\* C5: get_paz returns the PAZ of the first inventory, in list order, that
\* matches, having skipped every inventory before it; it raises NoPAZFound
\* naming the channel id, and returns nothing, exactly when no inventory
\* matches (the empty list included).
C5_FirstMatchingInventory ==
  /\ paz_pc = "loop" =>
       /\ paz = NoResult
       /\ \A m \in 1..Len(inventories) : m < k => ~Matches(inventories[m])
  /\ paz_pc = "returned" =>
       \E n \in 1..Len(inventories) :
         /\ Matches(inventories[n])
         /\ \A m \in 1..(n - 1) : ~Matches(inventories[m])
         /\ paz = [ret |-> inventories[n].paz, exc |-> <<>>]
  /\ paz_pc = "raised" =>
       /\ \A n \in 1..Len(inventories) : ~Matches(inventories[n])
       /\ paz.ret = "None"
       /\ paz.exc[1] = "NoPAZFound"
       /\ paz.exc[3] = channelid

\* C5: inventories [A, B], A a dict of another channel and B a dict of the
\* channel with t at the end of its window: B's PAZ is returned.
C5_Witness ==
  /\ paz_pc = "returned"
  /\ Len(inventories) = 2
  /\ inventories[1].kind = "dict" /\ inventories[1].channelid # channelid
  /\ inventories[2].kind = "dict" /\ inventories[2].enddate = {t}
  /\ inventories[1].paz # inventories[2].paz
  /\ paz.ret = inventories[2].paz

\* ------------------------------------------ properties: Station comparisons

\* The lexicographic order on (name, network, channel).
LexLess(s, o) ==
  \/ StrLess(s.name, o.name)
  \/ /\ s.name = o.name
     /\ \/ StrLess(s.network, o.network)
        \/ /\ s.network = o.network
           /\ StrLess(s.channel, o.channel)

\* C6: a == b iff name, network and channel are equal, whatever file, basedir,
\* subdirs and coord are; a != b is its negation; <, <=, >, >= are the
\* lexicographic order on the triple, and exactly one of a < b, a == b, a > b
\* holds.
C6_EqualityAndOrder ==
  cmp.done =>
    /\ cmp.eq <=> (a.name = b.name /\ a.network = b.network
                   /\ a.channel = b.channel)
    /\ cmp.ne <=> ~cmp.eq
    /\ cmp.lt <=> LexLess(a, b)
    /\ cmp.le <=> (LexLess(a, b) \/ cmp.eq)
    /\ cmp.gt <=> LexLess(b, a)
    /\ cmp.ge <=> (LexLess(b, a) \/ cmp.eq)
    /\ Cardinality({x \in {"lt", "eq", "gt"} : cmp[x]}) = 1

\* C6: two Stations of one triple that differ in file, subdirs and coord have
\* been compared, and are equal.
C6_Witness ==
  /\ cmp.done
  /\ cmp.eq /\ ~cmp.lt /\ ~cmp.gt
  /\ a.coord # b.coord /\ a.subdirs # b.subdirs /\ a.file # b.file

====
